---- MODULE Spec2Model ----
\* A model of src/index.js: the batch driver `generate`, the split assignment,
\* and the two compositors `centerImage` and `placeOnTransparent`.
EXTENDS Integers, Sequences, FiniteSets, TLC

VARIABLES
  baseFiles,    \* result of globSync(pattern): a sequence of base image files
  baseMtime,    \* fs.statSync(baseFile).mtime, per position of baseFiles
  catalog,      \* content of background/background-meta.json
  trainRatio,   \* second parameter of generate, in hundredths
  prng,         \* which fixed table seedrandom(name).int32() follows
  files,        \* the output directory: path -> file or NoFile
  inflight,     \* toFile() calls started by placeOnTransparent and not finished
  pc,           \* position of generate: idle, loop, resolved, rejected
  err,          \* why generate rejected
  bi, ci,       \* loop positions in baseFiles and in the catalog
  log,          \* console.log lines of the current run
  calls,        \* pairs the current run called a compositor for
  now,          \* file system clock
  runs,         \* number of runs started
  events,       \* number of runs and of touches of base files so far
  hist,         \* what was true when the current run began
  last,         \* what the most recent iteration of the loop did
  touched,      \* positions of base files touched since the current run began
  cx            \* the compositor laws: inputs and results of one composition

vars == <<baseFiles, baseMtime, catalog, trainRatio, prng, files, inflight,
          pc, err, bi, ci, log, calls, now, runs, events, hist, last,
          touched, cx>>

\* ---------------------------------------------------------------- bounds
MaxBases == 2
MaxCatalog == 2
MaxEvents == 3
MaxDim == 4

\* ---------------------------------------------------------------- helpers
Max(a, b) == IF a >= b THEN a ELSE b
Abs(a) == IF a < 0 THEN 0 - a ELSE a
NoFile == [mtime |-> -1, width |-> 0, height |-> 0]
Absent == "absent"
NoBoundary == [left |-> 0, top |-> 0, width |-> 0, height |-> 0]

\* ---------------------------------------------------------------- inputs
\* Base image files matched by bases/<type>/*.{png,jpg}; readable is
\* whether the image engine can decode the file.
\* The directory is listed in one order; globSync returns the files of a
\* directory in that order.
BaseUniverse ==
  << [name |-> "a", ext |-> "jpg", width |-> 3, height |-> 3, readable |-> TRUE],
     [name |-> "a", ext |-> "png", width |-> 4, height |-> 3, readable |-> TRUE],
     [name |-> "b", ext |-> "jpg", width |-> 4, height |-> 2, readable |-> FALSE],
     [name |-> "c", ext |-> "png", width |-> 3, height |-> 4, readable |-> TRUE] >>

\* the files at the positions I of the listing, in the order of the listing
Listing(I) ==
  [k \in 1..Cardinality(I) |->
     BaseUniverse[CHOOSE i \in I : Cardinality({ j \in I : j < i }) = k - 1]]

Directories == { Listing(I) : I \in { J \in SUBSET DOMAIN BaseUniverse : Cardinality(J) <= MaxBases } }

\* Background images named by the catalog entries.
BackgroundImage(filename) ==
  CASE filename = "wide.png" -> [width |-> 10, height |-> 8, readable |-> TRUE]
    [] filename = "tall.png" -> [width |-> 6, height |-> 9, readable |-> TRUE]
    [] OTHER -> [width |-> 0, height |-> 0, readable |-> FALSE]

\* Fractions of the catalog are tenths.
Den == 10

Boundary == [left |-> 1, top |-> 1, width |-> 5, height |-> 3]

\* Entries of background-meta.json; Absent marks a field the entry lacks.
EntryUniverse ==
  { [filename |-> "wide.png", composite |-> "center",
     orientation |-> Absent, transparentBoundary |-> NoBoundary],
    [filename |-> "wide.png", composite |-> "embedded",
     orientation |-> "landscape", transparentBoundary |-> Boundary],
    [filename |-> "wide.png", composite |-> "embedded",
     orientation |-> "landscape", transparentBoundary |-> NoBoundary],
    [filename |-> "wide.png", composite |-> "tile",
     orientation |-> Absent, transparentBoundary |-> NoBoundary] }

\* The catalog file: whether JSON.parse accepts it, and its entries.
Malformed == [parses |-> FALSE, entries |-> << >>]

Parsed(entries) == [parses |-> TRUE, entries |-> entries]

SeqsUpTo(S, n) == UNION { [1..k -> S] : k \in 0..n }

Stems == { BaseUniverse[i].name : i \in DOMAIN BaseUniverse }

Names == Stems \X (0..(MaxCatalog - 1))

Paths == {"train", "test"} \X Names

\* ---------------------------------------------------------------- split
\* seedrandom(outputFileName).int32(): a fixed function of the name alone.
\* The generator is a library; the tables below stand for it.
Int32Samples == << -2147483647, 2147483638, -13, 9 >>

StemNo(stem) == CASE stem = "a" -> 0 [] stem = "b" -> 1 [] OTHER -> 2

Int32(name) == Int32Samples[((StemNo(name[1]) + name[2] + prng) % 4) + 1]

\* `${path.parse(baseFile).name}_${i}.jpg`: the extension of the base file
\* is dropped, i is the key of the catalog entry.
outputFileName(baseFile, i) == << baseFile.name, i >>

seed(name) == Abs(Int32(name))

\* subdir with the comparison made inclusive
subdirInclusive(name, ratio) == IF (seed(name) % 10) * 10 <= ratio THEN "train" ELSE "test"

\* (seed % 10 / 10 < trainRatio) ? 'train' : 'test', the ratio in hundredths.
subdir(name, ratio) == IF (seed(name) % 10) * 10 < ratio THEN "train" ELSE "test"

outputFile(baseFile, i, ratio) ==
  << subdir(outputFileName(baseFile, i), ratio), outputFileName(baseFile, i) >>

\* ---------------------------------------------------------------- compositors
\* sharp's resize(width): the height follows the aspect ratio, rounded.
AutoHeight(W, H, w) == Max(1, (2 * H * w + W) \div (2 * W))

\* CenterTargetWidth with Math.round in place of Math.floor
CenterTargetWidthRounded(bw, bh) == (Max(bw, bh) * 12 + 5) \div 10

\* Math.floor(Math.max(baseMeta.width, baseMeta.height) * 1.2)
CenterTargetWidth(bw, bh) == (Max(bw, bh) * 12) \div 10

\* centerImage: the background is resized to the target width, the base is
\* composited as it is with gravity center; the result has the size of the
\* resized background.
centerImage(base, bg) ==
  LET w == CenterTargetWidth(base.width, base.height)
  IN [width |-> w, height |-> AutoHeight(bg.width, bg.height, w),
      baseWidth |-> base.width, baseHeight |-> base.height,
      gravity |-> "center"]

\* placeOnTransparent: sizes and offsets it computes, in exact arithmetic.
ResizedBaseHeight(bw, tb) == (bw * tb.height) \div tb.width

ScaledBackgroundWidth(bw, bg, tb) == (bg.width * bw * Den) \div (bg.width * tb.width)

ScaledBackgroundHeight(bw, bg, tb) == (bg.height * bw * Den) \div (bg.width * tb.width)

placeOnTransparent(base, bg, tb) ==
  LET sw == ScaledBackgroundWidth(base.width, bg, tb)
      sh == ScaledBackgroundHeight(base.width, bg, tb)
  IN [width |-> sw, height |-> sh,
      baseWidth |-> base.width,
      baseHeight |-> ResizedBaseHeight(base.width, tb),
      top |-> (tb.top * sh) \div Den,
      left |-> (tb.left * sw) \div Den]

\* baseOrientation with a square base taken as landscape
baseOrientationSquareLandscape(base) ==
  IF base.width >= base.height THEN "landscape" ELSE "portrait"

\* const baseOrientation = width > height ? 'landscape' : 'portrait'
baseOrientation(base) == IF base.width > base.height THEN "landscape" ELSE "portrait"

\* ---------------------------------------------------------------- state
TrainRatios == {50, 80}

PrngTables == {0}

NoImage == [width |-> 0, height |-> 0, baseWidth |-> 0, baseHeight |-> 0]

NoComposition == [op |-> "none"]

\* the image engine refuses to resize to an empty image
Resizable(img) == img.width > 0 /\ img.height > 0 /\ img.baseHeight > 0

Idle == [prevResolved |-> FALSE, prevKept |-> {}, touchedBefore |-> {},
         filesAtStart |-> [p \in Paths |-> NoFile]]

InitOf(bases, cat, ratio, table) ==
  /\ baseFiles = bases
  /\ baseMtime = [i \in DOMAIN bases |-> 0]
  /\ catalog = cat
  /\ trainRatio = ratio
  /\ prng = table
  /\ files = [p \in Paths |-> NoFile]
  /\ inflight = {}
  /\ pc = "idle"
  /\ err = "none"
  /\ bi = 1
  /\ ci = 1
  /\ log = << >>
  /\ calls = {}
  /\ last = "none"
  /\ now = 1
  /\ runs = 0
  /\ events = 0
  /\ hist = Idle
  /\ touched = {}

Init ==
  \E bases \in Directories,
     cat \in {Malformed} \cup { Parsed(e) : e \in SeqsUpTo(EntryUniverse, MaxCatalog) },
     ratio \in TrainRatios, table \in PrngTables :
    InitOf(bases, cat, ratio, table) /\ cx = NoComposition

inputs == << baseFiles, catalog, trainRatio, prng >>

\* ---------------------------------------------------------------- generate
Exists(path) == files[path] # NoFile

\* A console.log line; pair tells which iteration printed it.
Line(kind) == [kind |-> kind, path |-> << >>, pair |-> << >>]

PairLine(kind, path, pair) == [kind |-> kind, path |-> path, pair |-> pair]

\* What a run remembers of the state it started in.
BeginRun ==
  /\ pc \in {"idle", "resolved", "rejected"}
  /\ inflight = {}
  /\ events < MaxEvents
  /\ events' = events + 1
  /\ runs' = runs + 1
  /\ now' = now + 1
  /\ hist' = [prevResolved |-> pc = "resolved",
              prevKept |-> calls \cup { log[k].pair : k \in { j \in DOMAIN log : log[j].kind = "Skip" } },
              touchedBefore |-> touched,
              filesAtStart |-> files]
  /\ touched' = {}
  /\ calls' = {}
  /\ last' = "none"
  /\ bi' = 1
  /\ ci' = 1
  /\ UNCHANGED << inputs, baseMtime, files, inflight, cx >>

\* if (baseFiles.length === 0) return void console.log(...)
GenerateNoBases ==
  /\ BeginRun
  /\ Len(baseFiles) = 0
  /\ log' = << Line("NotFound") >>
  /\ pc' = "resolved"
  /\ err' = "none"

\* JSON.parse throws on a malformed catalog
GenerateBadCatalog ==
  /\ BeginRun
  /\ Len(baseFiles) > 0
  /\ ~catalog.parses
  /\ log' = << >>
  /\ pc' = "rejected"
  /\ err' = "json"

\* the catalog is parsed and the loops begin
GenerateBegin ==
  /\ BeginRun
  /\ Len(baseFiles) > 0
  /\ catalog.parses
  /\ log' = << >>
  /\ pc' = IF Len(catalog.entries) = 0 THEN "resolved" ELSE "loop"
  /\ err' = "none"

\* the next iteration of the inner loop, then of the outer one
Advance ==
  IF ci < Len(catalog.entries)
    THEN /\ ci' = ci + 1
         /\ UNCHANGED << bi, pc >>
    ELSE IF bi < Len(baseFiles)
      THEN /\ bi' = bi + 1
           /\ ci' = 1
           /\ UNCHANGED pc
      ELSE /\ pc' = "resolved"
           /\ UNCHANGED << bi, ci >>

\* an exception leaves generate: its promise is rejected
Reject(why) ==
  /\ pc' = "rejected"
  /\ err' = why
  /\ last' = "threw"
  /\ UNCHANGED << bi, ci, log, calls, files, inflight >>

curBase == baseFiles[bi]
curMeta == catalog.entries[ci]
curOutput == outputFile(curBase, ci - 1, trainRatio)
curPair == << bi, ci >>

\* UpToDate with the comparison of the two times reversed
UpToDateReversed(path, b) == Exists(path) /\ baseMtime[b] > files[path].mtime

\* fs.existsSync(outputFile) && statSync(baseFile).mtime <= statSync(outputFile).mtime
UpToDate(path, b) == Exists(path) /\ baseMtime[b] <= files[path].mtime

Written(img) == [mtime |-> now, width |-> img.width, height |-> img.height]

InLoop ==
  /\ pc = "loop"
  /\ UNCHANGED << inputs, baseMtime, now, runs, events, hist, touched, cx >>

\* console.log(`Skip ...`); continue
PairSkip ==
  /\ InLoop
  /\ UpToDate(curOutput, bi)
  /\ log' = Append(log, PairLine("Skip", curOutput, curPair))
  /\ last' = "skip"
  /\ Advance
  /\ UNCHANGED << err, calls, files, inflight >>

\* await centerImage(baseFile, backgroundFile, outputFile)
PairCenter ==
  /\ InLoop
  /\ ~UpToDate(curOutput, bi)
  /\ curMeta.composite = "center"
  /\ IF curBase.readable /\ BackgroundImage(curMeta.filename).readable
       THEN /\ files' = [files EXCEPT ![curOutput] =
                 Written(centerImage(curBase, BackgroundImage(curMeta.filename)))]
            /\ calls' = calls \cup {curPair}
            /\ log' = Append(log, PairLine("Generate", curOutput, curPair))
            /\ last' = "center"
            /\ Advance
            /\ UNCHANGED << err, inflight >>
       ELSE Reject("engine")

\* the embedded branch: metadata, the orientation test, placeOnTransparent,
\* whose last toFile() is started and not awaited
PairEmbedded ==
  /\ InLoop
  /\ ~UpToDate(curOutput, bi)
  /\ curMeta.composite = "embedded"
  /\ IF ~curBase.readable
       THEN Reject("engine")
       ELSE IF baseOrientation(curBase) # curMeta.orientation
         THEN /\ Advance
              /\ last' = "mismatch"
              /\ UNCHANGED << err, log, calls, files, inflight >>
         ELSE IF curMeta.transparentBoundary = NoBoundary
           THEN Reject("type")
           ELSE IF \/ ~BackgroundImage(curMeta.filename).readable
                   \/ ~Resizable(placeOnTransparent(curBase,
                                    BackgroundImage(curMeta.filename),
                                    curMeta.transparentBoundary))
             THEN Reject("engine")
             ELSE /\ inflight' = inflight \cup
                       { [path |-> curOutput,
                          img |-> placeOnTransparent(curBase,
                                    BackgroundImage(curMeta.filename),
                                    curMeta.transparentBoundary)] }
                  /\ calls' = calls \cup {curPair}
                  /\ log' = Append(log, PairLine("Generate", curOutput, curPair))
                  /\ last' = "embedded"
                  /\ Advance
                  /\ UNCHANGED << err, files >>

\* neither branch of the if is taken; the Generate line is still printed
PairOther ==
  /\ InLoop
  /\ ~UpToDate(curOutput, bi)
  /\ curMeta.composite \notin {"center", "embedded"}
  /\ log' = Append(log, PairLine("Generate", curOutput, curPair))
  /\ last' = "other"
  /\ Advance
  /\ UNCHANGED << err, calls, files, inflight >>

\* a toFile() started by placeOnTransparent finishes
CompleteWrite ==
  /\ \E w \in inflight :
       /\ files' = [files EXCEPT ![w.path] = Written(w.img)]
       /\ inflight' = inflight \ {w}
  /\ UNCHANGED << inputs, baseMtime, pc, err, bi, ci, log, calls, now, runs,
                  events, hist, last, touched, cx >>

\* the process dies of the rejection with writes still pending
ExitOnRejection ==
  /\ pc = "rejected"
  /\ inflight # {}
  /\ inflight' = {}
  /\ UNCHANGED << inputs, baseMtime, files, pc, err, bi, ci, log, calls, now,
                  runs, events, hist, last, touched, cx >>

\* between two runs the modification time of a base file is set, to the
\* time of the touch or to a time ahead of the clock
FutureTime == now + MaxEvents + 1

Touch ==
  /\ pc \in {"resolved", "rejected"}
  /\ inflight = {}
  /\ events < MaxEvents
  /\ \E b \in DOMAIN baseFiles, t \in {now + 1, FutureTime} :
       /\ baseMtime' = [baseMtime EXCEPT ![b] = t]
       /\ touched' = touched \cup {b}
  /\ events' = events + 1
  /\ now' = now + 1
  /\ UNCHANGED << inputs, files, inflight, pc, err, bi, ci, log, calls, runs,
                  hist, last, cx >>

Next ==
  \/ GenerateNoBases
  \/ GenerateBadCatalog
  \/ GenerateBegin
  \/ PairSkip
  \/ PairCenter
  \/ PairEmbedded
  \/ PairOther
  \/ CompleteWrite
  \/ ExitOnRejection
  \/ Touch

Spec == Init /\ [][Next]_vars

\* ---------------------------------------------------------------- the compositors alone
\* centerImage applied to a base and a background of any small size
InitCenter ==
  /\ InitOf(<< >>, Parsed(<< >>), 80, 0)
  /\ \E bw, bh, W, H \in 1..MaxDim :
       cx = [op |-> "center", done |-> "no",
             base |-> [width |-> bw, height |-> bh],
             bg |-> [width |-> W, height |-> H],
             out |-> NoImage]

ApplyCenter ==
  /\ cx.op = "center"
  /\ cx.done = "no"
  /\ cx' = [cx EXCEPT !.done = "yes", !.out = centerImage(cx.base, cx.bg)]
  /\ UNCHANGED << inputs, baseMtime, files, inflight, pc, err, bi, ci, log,
                  calls, now, runs, events, hist, last, touched >>

NextCenter == ApplyCenter

SpecCenter == InitCenter /\ [][NextCenter]_vars

\* placeOnTransparent applied to a base, a background and a boundary that
\* satisfies the invariants of the catalog
EmbeddedDims == (1..MaxDim) \cup {200, 400, 800, 1000}

BoundaryUniverse ==
  { tb \in [left : {0, 1}, top : {0, 1}, width : {3, 5, 10}, height : {3, 5, 10}] :
      tb.left + tb.width <= Den /\ tb.top + tb.height <= Den }

InitEmbedded ==
  /\ InitOf(<< >>, Parsed(<< >>), 80, 0)
  /\ \E bw, bh, W, H \in EmbeddedDims, tb \in BoundaryUniverse :
       cx = [op |-> "embedded", done |-> "no",
             base |-> [width |-> bw, height |-> bh],
             bg |-> [width |-> W, height |-> H],
             tb |-> tb,
             out |-> NoImage]

ApplyEmbedded ==
  /\ cx.op = "embedded"
  /\ cx.done = "no"
  /\ LET img == placeOnTransparent(cx.base, cx.bg, cx.tb)
     IN cx' = [cx EXCEPT !.done = IF Resizable(img) THEN "yes" ELSE "threw",
                         !.out = img]
  /\ UNCHANGED << inputs, baseMtime, files, inflight, pc, err, bi, ci, log,
                  calls, now, runs, events, hist, last, touched >>

NextEmbedded == ApplyEmbedded

SpecEmbedded == InitEmbedded /\ [][NextEmbedded]_vars

\* ---------------------------------------------------------------- claims
Pairs == (DOMAIN baseFiles) \X (DOMAIN catalog.entries)

PairOutput(p) == outputFile(baseFiles[p[1]], p[2] - 1, trainRatio)

Range(f) == { f[x] : x \in DOMAIN f }

\* generate has resolved and the writes it started have finished
RunCompleted == pc = "resolved" /\ inflight = {}

\* the run that completed followed a completed run, with no input changed
RerunUnchanged ==
  /\ RunCompleted
  /\ runs >= 2
  /\ hist.prevResolved
  /\ hist.touchedBefore = {}

\* every entry is center or embedded, embedded ones with their fields
WellFormedCatalog ==
  /\ catalog.parses
  /\ \A m \in Range(catalog.entries) :
       \/ m.composite = "center"
       \/ /\ m.composite = "embedded"
          /\ m.orientation # Absent
          /\ m.transparentBoundary # NoBoundary

\* C1 as stated, for a catalog that satisfies the catalog invariants: a
\* second run with unchanged inputs calls no compositor, leaves every output
\* file as it was and reports every pair as skipped.
C1_IdempotentRerun ==
  (RerunUnchanged /\ WellFormedCatalog) =>
    /\ calls = {}
    /\ files = hist.filesAtStart
    /\ \A p \in Pairs : PairLine("Skip", PairOutput(p), p) \in Range(log)

\* no base file has a modification time ahead of the clock
NoBaseAhead == \A b \in DOMAIN baseFiles : baseMtime[b] < now

\* C1 as amended: a second run with unchanged inputs, no base file being
\* dated ahead of the clock, calls no compositor, leaves every output file as
\* it was, reports as skipped every pair that the first run skipped or called
\* a compositor for, and prints a Generate line only for entries that are
\* neither center nor embedded.
C1_IdempotentRerunOfOutputs ==
  (RerunUnchanged /\ NoBaseAhead) =>
    /\ calls = {}
    /\ files = hist.filesAtStart
    /\ \A p \in hist.prevKept :
         PairLine("Skip", PairOutput(p), p) \in Range(log)
    /\ \A l \in Range(log) :
         l.kind = "Generate" =>
           catalog.entries[l.pair[2]].composite \notin {"center", "embedded"}

\* with a valid catalog, a second unchanged run skipped the pairs the first
\* run kept and went over a pair that the orientation guard passes over
C1_Witness ==
  /\ RerunUnchanged
  /\ NoBaseAhead
  /\ WellFormedCatalog
  /\ hist.prevKept # {}
  /\ Pairs \ hist.prevKept # {}
  /\ last = "skip"

\* the entry of a pair leads to an output file for its base
Produces(p) ==
  LET m == catalog.entries[p[2]]
      b == baseFiles[p[1]]
  IN \/ m.composite = "center"
     \/ m.composite = "embedded" /\ baseOrientation(b) = m.orientation

\* C2: after a completed run, when exactly one base file B was touched to a
\* time past its outputs, the next run rewrites exactly the outputs derived
\* from B, and calls no compositor for and leaves alone the output of every
\* pair of the other base files.
C2_RegeneratesTouchedOnly ==
  \A B \in DOMAIN baseFiles :
    ( /\ RunCompleted
      /\ runs >= 2
      /\ hist.prevResolved
      /\ hist.touchedBefore = {B}
      /\ \A c \in DOMAIN catalog.entries :
           baseMtime[B] > hist.filesAtStart[PairOutput(<< B, c >>)].mtime )
    =>
      /\ { q \in Paths : files[q] # hist.filesAtStart[q] }
           = { PairOutput(<< B, c >>) :
                 c \in { d \in DOMAIN catalog.entries : Produces(<< B, d >>) } }
      /\ \A p \in Pairs :
           p[1] # B => /\ p \notin calls
                       /\ files[PairOutput(p)] = hist.filesAtStart[PairOutput(p)]

\* the bucket of a name, from the integer the generator gives for it
Bucket(name) ==
  LET v == Int32(name)
      d == IF v < 0 THEN (0 - v) % 10 ELSE v % 10
  IN IF trainRatio = 80
       THEN (IF d \in 0..7 THEN "train" ELSE "test")
       ELSE (IF 10 * d < trainRatio THEN "train" ELSE "test")

\* C3: the bucket of every output path, written, being written or reported,
\* is the one that the name and the ratio determine, in every run.
C3_SplitByNameAndRatio ==
  /\ \A q \in Paths : Exists(q) => q[1] = Bucket(q[2])
  /\ \A w \in inflight : w.path[1] = Bucket(w.path[2])
  /\ \A l \in Range(log) : l.pair # << >> => l.path[1] = Bucket(l.path[2])

\* a later run has files in both buckets
C3_Witness ==
  /\ runs >= 2
  /\ \E q \in Paths : Exists(q) /\ q[1] = "train"
  /\ \E q \in Paths : Exists(q) /\ q[1] = "test"
  /\ \E l \in Range(log) : l.kind = "Skip"

\* C4: when the image engine fails for a pair, the pairs after it are still
\* visited: the run does not end with pairs left.
C4_FailureIsolated ==
  (pc = "rejected" /\ err = "engine") =>
    (bi = Len(baseFiles) /\ ci = Len(catalog.entries))

\* C5: in a run, two distinct pairs never have the same output path, and no
\* path is written while a write of it is pending.
C5_DistinctOutputPaths ==
  pc # "idle" =>
    /\ \A p, q \in Pairs : p # q => PairOutput(p) # PairOutput(q)
    /\ \A v, w \in inflight : v # w => v.path # w.path

\* the orientation of the base differs from the one the entry declares
Mismatch(b, m) ==
  \/ b.width > b.height /\ m.orientation # "landscape"
  \/ b.width <= b.height /\ m.orientation # "portrait"

\* C6: an iteration over an embedded entry whose declared orientation differs
\* from that of the (decodable) base, the output not being up to date, calls
\* no compositor, writes nothing, raises nothing and goes on to the next pair.
C6_OrientationGuard ==
  [][ ( /\ pc = "loop"
        /\ << bi, ci, pc >>' # << bi, ci, pc >>
        /\ curMeta.composite = "embedded"
        /\ curBase.readable
        /\ ~UpToDate(curOutput, bi)
        /\ Mismatch(curBase, curMeta) )
      =>
      ( /\ files' = files
        /\ inflight' = inflight
        /\ calls' = calls
        /\ log' = log
        /\ pc' # "rejected"
        /\ err' = err
        /\ \/ pc' = "resolved" /\ bi = Len(baseFiles) /\ ci = Len(catalog.entries)
           \/ pc' = "loop" /\ ci < Len(catalog.entries) /\ bi' = bi /\ ci' = ci + 1
           \/ pc' = "loop" /\ ci = Len(catalog.entries) /\ bi' = bi + 1 /\ ci' = 1 )
    ]_vars

\* the guard has just passed over a pair of a valid catalog, more pairs follow
C6_Witness == last = "mismatch" /\ pc = "loop" /\ WellFormedCatalog

\* the catalog has an embedded entry without orientation or transparentBoundary
MalformedCatalog ==
  \/ ~catalog.parses
  \/ \E m \in Range(catalog.entries) :
       /\ m.composite = "embedded"
       /\ (m.orientation = Absent \/ m.transparentBoundary = NoBoundary)

\* C7: with a malformed catalog a run that found base files is rejected before
\* it processes a pair.
C7_CatalogFailsFast ==
  (pc # "idle" /\ Len(baseFiles) > 0 /\ MalformedCatalog) =>
    /\ pc = "rejected"
    /\ last = "none"
    /\ log = << >>
    /\ files = hist.filesAtStart

\* C10: a pair reported as generated had a compositor called for it and its
\* output file is written, with no write of it pending.
C10_ReportAfterWrite ==
  \A l \in Range(log) :
    l.kind = "Generate" =>
      /\ l.pair \in calls
      /\ Exists(l.path)
      /\ \A w \in inflight : w.path # l.path

\* C8 as stated: the longer side of the resized background is
\* round(max(bw, bh) * 1.2), the result has the size of the resized
\* background and the base is composited unscaled at the center.
C8_CenterLongerSideRounded ==
  (cx.op = "center" /\ cx.done = "yes") =>
    /\ Max(cx.out.width, cx.out.height)
         = (12 * Max(cx.base.width, cx.base.height) + 5) \div 10
    /\ cx.out.baseWidth = cx.base.width
    /\ cx.out.baseHeight = cx.base.height
    /\ cx.out.gravity = "center"

\* C8 as amended: the width of the resized background is
\* floor(max(bw, bh) * 1.2) and its height follows the aspect ratio of the
\* background (to the nearest pixel, at least one); the result has that
\* size and the base is composited unscaled at the center.
C8_CenterWidthFloored ==
  (cx.op = "center" /\ cx.done = "yes") =>
    /\ 10 * cx.out.width <= 12 * Max(cx.base.width, cx.base.height)
    /\ 12 * Max(cx.base.width, cx.base.height) < 10 * (cx.out.width + 1)
    /\ \/ cx.out.height = 1
       \/ 2 * Abs(cx.out.height * cx.bg.width - cx.bg.height * cx.out.width)
            <= cx.bg.width
    /\ cx.out.height >= 1
    /\ cx.out.baseWidth = cx.base.width
    /\ cx.out.baseHeight = cx.base.height
    /\ cx.out.gravity = "center"

\* a base whose longer side times 1.2 rounds up, on a background that is
\* taller than wide
C8_Witness ==
  /\ cx.op = "center"
  /\ cx.done = "yes"
  /\ Max(cx.base.width, cx.base.height) = 3
  /\ cx.bg.height > cx.bg.width
  /\ cx.out.width = 3

\* C9: the base is resized to w x floor(w*bh/bw); the resized base has the
\* aspect ratio of the cutout of the scaled background, whose width equals
\* the width of the resized base; the base is placed at
\* (floor(left * scaledW), floor(top * scaledH)). The cutout of the scaled
\* background is bw * scaledW wide and bh * scaledH high; equal widths and
\* equal aspect ratios make the heights equal too. Both equalities are
\* asked only to within the pixels that the floors drop.
C9_CutoutFit ==
  (cx.op = "embedded" /\ cx.done = "yes") =>
    /\ cx.out.baseWidth = cx.base.width
    /\ cx.tb.width * cx.out.baseHeight <= cx.base.width * cx.tb.height
    /\ cx.base.width * cx.tb.height < cx.tb.width * (cx.out.baseHeight + 1)
    /\ Abs(Den * cx.out.baseHeight - cx.tb.height * cx.out.height) <= 2 * Den
    /\ Abs(Den * cx.out.baseWidth - cx.tb.width * cx.out.width) <= Den
    /\ Den * cx.out.left <= cx.tb.left * cx.out.width
    /\ cx.tb.left * cx.out.width < Den * (cx.out.left + 1)
    /\ Den * cx.out.top <= cx.tb.top * cx.out.height
    /\ cx.tb.top * cx.out.height < Den * (cx.out.top + 1)

====
